---- MODULE Spec2Model ----
(***************************************************************************)
(* Incremental CSV sync of streamlit_app.py: token exchange, paginated     *)
(* listing (get_all_files), forced-refresh selection (latest_per_machine)  *)
(* and the download / merge / persist procedure (fetch_data).              *)
(*                                                                         *)
(* One execution of the script is one atomic step (ScriptRun): the script  *)
(* is single-threaded and nothing else touches the cache directory.  The   *)
(* state of the remote folder, the outcome of the token exchange and the   *)
(* page on which the listing is refused are inputs of each execution.      *)
(* SpecLatest applies the CSV filter and latest_per_machine to listings of *)
(* arbitrary file names.                                                   *)
(***************************************************************************)
EXTENDS Integers, Sequences, FiniteSets

(* ------------------------------ bounds --------------------------------- *)
MaxTime == 2        \* lastModifiedDateTime values 1..MaxTime
MaxRows == 2        \* rows kept in combined_data.parquet
PageSize == 1       \* entries per listing page returned by the server
MaxMachine == 2     \* machine tokens Presse1..Presse<MaxMachine>
MaxDate == 2        \* valid embedded dates 1..MaxDate (0 is date-shaped but invalid)
MaxNameLen == 3     \* tokens per file name in the latest_per_machine specification
MaxFiles == 2       \* files per listing in the latest_per_machine specification
MaxTokens == 4      \* tokens per listing in the latest_per_machine specification

(* ------------------------------ names ---------------------------------- *)
\* A file name is reduced to what the code looks at: the sequence of its
\* "Presse<d>" tokens <<"m", d>> and date-shaped substrings <<"d", k>>
\* (k = 0: matches \d{4}-\d{2}-\d{2} but is no calendar date), whether its
\* lower-cased trimmed form ends in ".csv", and whether it carries
\* surrounding whitespace.
Token == ({"m"} \X (1..MaxMachine)) \cup ({"d"} \X (0..MaxDate))

Min(S) == CHOOSE x \in S : \A y \in S : x <= y

\* str.strip()
strip(n) == [n EXCEPT !.pad = FALSE]

\* name.lower().strip().endswith(".csv")
is_csv(n) == n.csv

NoMatch == <<>>

\* pattern.search(name) for r'(Presse\d).*?(\d{4}-\d{2}-\d{2})': the leftmost
\* machine token that has a date-shaped substring after it, and (lazy .*?)
\* the first date-shaped substring after that token.  Result <<machine, datestr>>.
pattern_search(n) ==
    LET toks == n.toks
        ms == {i \in 1..Len(toks) : toks[i][1] = "m"
                   /\ \E j \in (i+1)..Len(toks) : toks[j][1] = "d"}
    IN  IF ms = {} THEN NoMatch
        ELSE LET i == Min(ms)
                 j == Min({k \in (i+1)..Len(toks) : toks[k][1] = "d"})
             IN  <<toks[i][2], toks[j][2]>>

\* datetime.strptime(datestr, "%Y-%m-%d") raises ValueError on a non-date
strptime_ok(datestr) == datestr >= 1

\* f"{f['size']}_{f['lastModifiedDateTime']}"
file_hash(f) == <<f.size, f.lastModifiedDateTime>>

(* ------------------------- latest_per_machine -------------------------- *)
\* the comparison dropped: the last file of a machine wins
is_later_last_wins(machine, dt, latest) == TRUE

\* if machine not in latest or dt > latest[machine][0]
is_later(machine, dt, latest) ==
    machine \notin DOMAIN latest \/ dt > latest[machine][1]

RECURSIVE latest_loop(_, _, _)
latest_loop(files, i, latest) ==
    IF i > Len(files) THEN latest
    ELSE LET f == files[i]
             m == pattern_search(strip(f.name))
         IN  IF m = NoMatch THEN latest_loop(files, i + 1, latest)
             ELSE IF ~strptime_ok(m[2]) THEN latest_loop(files, i + 1, latest)
             ELSE IF is_later(m[1], m[2], latest)
                  THEN latest_loop(files, i + 1,
                         [k \in DOMAIN latest \cup {m[1]} |->
                             IF k = m[1] THEN <<m[2], f>> ELSE latest[k]])
                  ELSE latest_loop(files, i + 1, latest)

\* returns machine -> file
latest_per_machine(files) ==
    LET latest == latest_loop(files, 1, <<>>)
    IN  [k \in DOMAIN latest |-> latest[k][2]]

csv_filter(files) == SelectSeq(files, LAMBDA f : is_csv(f.name))

\* force_names = [v["name"].strip() for v in latest_files.values()]
force_names_of(latest) == {strip(latest[k].name) : k \in DOMAIN latest}

(* ------------------------------ state ---------------------------------- *)
VARIABLES
    index,        \* file_index.json: trimmed name -> fingerprint ({} when the file is absent)
    data_state,   \* combined_data.parquet: "absent", "nocols" (written from an empty frame) or "table"
    data,         \* rows of combined_data.parquet, in order
    token,        \* module-level token of the last execution (FALSE: no access_token)
    requests,     \* listing GETs issued by get_all_files in the last execution
    listed,       \* all_files returned by get_all_files in the last execution
    list_failed,  \* get_all_files left its loop through the status_code != 200 break
    repeat,       \* get_all_files returned what it returned in the execution before
    latest_files, \* latest_files of the last execution: machine -> entry
    downloaded,   \* trimmed names whose download URL was requested in the last execution
    result        \* "none" before any execution, "returned" or "raised" for the last one

vars == <<index, data_state, data, token, requests, listed, list_failed,
          repeat, latest_files, downloaded, result>>

cache == <<index, data_state, data>>

\* The folder's possible entries, two CSV files of one machine.  NameB carries
\* trailing whitespace.
NameA == [toks |-> << <<"m", 1>>, <<"d", 1>> >>, csv |-> TRUE, pad |-> FALSE]
NameB == [toks |-> << <<"m", 1>>, <<"d", 2>> >>, csv |-> TRUE, pad |-> TRUE]
Order == <<NameA, NameB>>
Universe == {Order[i] : i \in 1..Len(Order)}

\* what GET downloadUrl followed by pd.read_csv yields: a table with Date and
\* Heure, a table lacking one of them, or an exception on both attempts
Bodies == {"rows", "nocols", "error"}

\* size, lastModifiedDateTime and download outcome of a folder entry
Meta == [size : {1}, lastModifiedDateTime : 1..MaxTime, body : Bodies]

\* the states of the OneDrive folder: raw name -> metadata
Folders == UNION {[S -> Meta] : S \in SUBSET Universe}

Extend(f, k, v) == [x \in DOMAIN f \cup {k} |-> IF x = k THEN v ELSE f[x]]

\* the folder's children in the server's order, as entries of the "value" array
Listing(folder) ==
    LET present == SelectSeq(Order, LAMBDA n : n \in DOMAIN folder)
    IN  [i \in 1..Len(present) |->
            [name |-> present[i], size |-> folder[present[i]].size,
             lastModifiedDateTime |-> folder[present[i]].lastModifiedDateTime,
             body |-> folder[present[i]].body]]

(* ---------------------------- get_all_files ---------------------------- *)
\* The while-url loop.  Page p holds entries (p-1)*PageSize+1 .. p*PageSize of
\* the folder; the response carries @odata.nextLink while entries remain.
\* failAt = p: the GET for page p answers with a status other than 200.
RECURSIVE get_all_files_loop(_, _, _, _)
get_all_files_loop(listing, failAt, p, all_files) ==
    IF failAt = p
    THEN [files |-> all_files, requests |-> p, failed |-> TRUE]
    ELSE LET lo == (p - 1) * PageSize + 1
             hi == IF p * PageSize < Len(listing) THEN p * PageSize ELSE Len(listing)
             ext == all_files \o SubSeq(listing, lo, hi)
         IN  IF hi < Len(listing)
             THEN get_all_files_loop(listing, failAt, p + 1, ext)
             ELSE [files |-> ext, requests |-> p, failed |-> FALSE]

get_all_files(listing, failAt) == get_all_files_loop(listing, failAt, 1, <<>>)

NumPages(listing) ==
    IF Len(listing) = 0 THEN 1 ELSE (Len(listing) + PageSize - 1) \div PageSize

\* load_index(): {} when file_index.json does not exist
load_index == index

\* the new entries merged into the prior index instead of replacing it
save_index_merge(new_index) ==
    [n \in DOMAIN index \cup DOMAIN new_index |->
        IF n \in DOMAIN new_index THEN new_index[n] ELSE index[n]]

\* save_index(new_index): json.dump over the whole file
save_index(new_index) == new_index

(* ------------------------------ fetch_data ----------------------------- *)
\* the rows parsed from one download, tagged with source_file
Row(name, f) == [source_file |-> name, fp |-> file_hash(f)]

\* the forced refresh dropped: only changed files are fetched
must_fetch_changed_only(is_changed, is_latest) == is_changed

\* if changed or is_latest
must_fetch(is_changed, is_latest) == is_changed \/ is_latest

\* the for-f-in-csvs loop
RECURSIVE fetch_loop(_, _, _, _, _)
fetch_loop(csvs, i, old_index, force_names, acc) ==
    IF i > Len(csvs) THEN acc
    ELSE LET f == csvs[i]
             name == strip(f.name)
             new_index == Extend(acc.new_index, name, file_hash(f))
             is_latest == name \in force_names
             is_changed == name \notin DOMAIN old_index \/ file_hash(f) # old_index[name]
             acc1 == [acc EXCEPT !.new_index = new_index]
         IN  IF must_fetch(is_changed, is_latest)
             THEN LET acc2 == [acc1 EXCEPT !.downloaded = @ \cup {name}]
                  IN  IF f.body = "rows"
                      THEN fetch_loop(csvs, i + 1, old_index, force_names,
                             [acc2 EXCEPT !.new_data = Append(@, Row(name, f))])
                      ELSE fetch_loop(csvs, i + 1, old_index, force_names, acc2)
             ELSE fetch_loop(csvs, i + 1, old_index, force_names, acc1)

\* the removal dropped: the prior rows of the forced files are kept
drop_forced_keep(base, force_names) == base

\* base[~base["source_file"].isin(force_names)]
drop_forced(base, force_names) ==
    SelectSeq(base, LAMBDA r : r.source_file \notin force_names)

\* combined: pd.concat([base] + new_data) when DATA_FILE exists, else
\* pd.concat(new_data) or an empty DataFrame
merge(base, new_data) ==
    IF data_state = "table" THEN base \o new_data ELSE new_data

(* ------------------------------ actions -------------------------------- *)
Init ==
    /\ index = <<>>
    /\ data_state = "absent"
    /\ data = <<>>
    /\ token = TRUE
    /\ requests = 0
    /\ listed = <<>>
    /\ list_failed = FALSE
    /\ repeat = FALSE
    /\ latest_files = <<>>
    /\ downloaded = {}
    /\ result = "none"

\* fetch_data(), lines 85-123, on the files returned by get_all_files().  The
\* singleton quantifiers bind the locals csvs, latest_files, force_names, the
\* outcome of the loop and combined.  A parquet file written from an empty
\* frame has no source_file column: reading it back makes line 116 raise
\* KeyError before anything is written.
fetch_data(files) ==
    \E csvs \in {csv_filter(files)} :
    \E latest \in {latest_per_machine(csvs)} :
    \E force_names \in {force_names_of(latest)} :
    \E loop \in {fetch_loop(csvs, 1, load_index, force_names,
                     [new_index |-> <<>>, new_data |-> <<>>, downloaded |-> {}])} :
    \E combined \in {merge(drop_forced(data, force_names), loop.new_data)} :
        /\ Len(combined) <= MaxRows
        /\ latest_files' = latest
        /\ downloaded' = loop.downloaded
        /\ IF data_state = "nocols"
           THEN /\ result' = "raised"
                /\ UNCHANGED cache
           ELSE /\ result' = "returned"
                /\ data' = combined
                /\ data_state' = IF data_state = "table" \/ loop.new_data # <<>>
                                 THEN "table" ELSE "nocols"
                /\ index' = save_index(loop.new_index)

\* One execution of the script, lines 39-131, against the folder as it is at
\* that time.  tok: get_access_token() returned a token.  failAt: the listing
\* page whose GET is refused (0: none); without a token the request carries no
\* Authorization header and the first GET is refused.
ScriptRun(folder, tok, failAt) ==
    /\ failAt \in 0..NumPages(Listing(folder))
    /\ ~tok => failAt = 1
    /\ \E got \in {get_all_files(Listing(folder), failAt)} :
           /\ token' = tok
           /\ requests' = got.requests
           /\ listed' = got.files
           /\ list_failed' = got.failed
           /\ repeat' = (got.files = listed)
           /\ fetch_data(got.files)

Run == \E folder \in Folders, tok \in BOOLEAN, failAt \in 0..Len(Order) :
           ScriptRun(folder, tok, failAt)

Next == Run

Spec == Init /\ [][Next]_vars

(* ----------- latest_per_machine on arbitrary file names ----------------- *)
FileL(toks, csv) ==
    [name |-> [toks |-> toks, csv |-> csv, pad |-> FALSE],
     size |-> 1, lastModifiedDateTime |-> 1, body |-> "rows"]

RECURSIVE TotalToks(_)
TotalToks(files) ==
    IF files = <<>> THEN 0 ELSE Len(Head(files).name.toks) + TotalToks(Tail(files))

\* lines 87-88, csvs and latest_per_machine(csvs), on a listing that has grown
\* by one entry, whose name has at most MaxNameLen tokens
CallLatest ==
    /\ Len(listed) < MaxFiles
    /\ \E k \in {j \in 0..MaxNameLen : TotalToks(listed) + j <= MaxTokens} :
       \E toks \in [1..k -> Token], csv \in BOOLEAN :
          /\ listed' = Append(listed, FileL(toks, csv))
          /\ latest_files' = latest_per_machine(csv_filter(listed'))
          /\ result' = "returned"
          /\ UNCHANGED <<cache, token, requests, list_failed, repeat, downloaded>>

NextL == CallLatest

SpecLatest == Init /\ [][NextL]_vars

(* ------------------------------ properties ----------------------------- *)
TypeOK ==
    /\ data_state \in {"absent", "nocols", "table"}
    /\ Len(data) <= MaxRows
    /\ result \in {"none", "returned", "raised"}
    /\ requests \in 0..Len(Order)

\* a name without its surrounding whitespace
Trimmed(n) == [toks |-> n.toks, csv |-> n.csv, pad |-> FALSE]

\* size + lastModified of a listed entry
Fingerprint(f) == <<f.size, f.lastModifiedDateTime>>

ListedFiles == {listed[i] : i \in 1..Len(listed)}
ListedCsv == {f \in ListedFiles : f.name.csv}
Force == {Trimmed(latest_files[k].name) : k \in DOMAIN latest_files}
Sources == {data[i].source_file : i \in 1..Len(data)}

\* changed-by-fingerprint against a FileIndex
Stale(f, idx) ==
    \/ Trimmed(f.name) \notin DOMAIN idx
    \/ idx[Trimmed(f.name)] # Fingerprint(f)

\* C1: in every execution, a listed CSV file's download is attempted if and
\* only if it is changed against the prior FileIndex or is in the
\* forced-refresh set.
C1_FetchPolicy ==
    [][downloaded' = {Trimmed(f.name) :
            f \in {g \in ListedCsv' : Stale(g, index) \/ Trimmed(g.name) \in Force'}}]_vars

\* C1 witness: an execution on an unchanged listing downloaded the forced file
\* and skipped an unforced one.
C1_Witness ==
    /\ result = "returned" /\ repeat
    /\ \E f \in ListedCsv : Trimmed(f.name) \in Force \cap downloaded
    /\ \E g \in ListedCsv : Trimmed(g.name) \notin downloaded

\* C2: the CachedDataset never holds rows of two fingerprint-versions of one
\* source_file.
C2_OneVersionPerSource ==
    \A i, j \in 1..Len(data) :
        data[i].source_file = data[j].source_file => data[i].fp = data[j].fp

\* C3: a file whose download failed has no matching fingerprint in the saved
\* FileIndex, and the next execution on the same listing attempts it again.
C3_FailedRetried ==
    [][\A f \in ListedCsv :
          (result = "returned" /\ f.body = "error" /\ Trimmed(f.name) \in downloaded)
          => /\ ~(Trimmed(f.name) \in DOMAIN index /\ index[Trimmed(f.name)] = Fingerprint(f))
             /\ (listed' = listed => Trimmed(f.name) \in downloaded')]_vars

\* the number of rows of data equal to r
RECURSIVE Count(_, _)
Count(rows, r) ==
    IF rows = <<>> THEN 0
    ELSE (IF Head(rows) = r THEN 1 ELSE 0) + Count(Tail(rows), r)

SameRows(d1, d2) ==
    /\ Len(d1) = Len(d2)
    /\ \A i \in 1..Len(d1) : Count(d1, d1[i]) = Count(d2, d1[i])

\* C4: an execution that gets the same listing, with the same file contents,
\* as the execution before it leaves the CachedDataset with the same rows.
C4_Idempotent ==
    [][listed' = listed => SameRows(data, data')]_vars

\* C4 witness: an execution on an unchanged listing re-downloaded a forced file
\* whose rows are in the dataset next to rows of an unforced file.
C4_Witness ==
    /\ result = "returned" /\ repeat
    /\ downloaded # {}
    /\ Sources \cap Force \cap downloaded # {}
    /\ Sources \ Force # {}

\* C5: when a listing request is refused and a non-empty CachedDataset
\* exists, the execution returns and the dataset is what it was.
C5_ListingFailureKeepsCache ==
    [][(list_failed' /\ data # <<>>) => (result' = "returned" /\ data' = data)]_vars

\* C6: a fetched file lacking Date or Heure has no rows in the merged
\* CachedDataset.
C6_NoColumnsNoRows ==
    result = "returned" =>
        \A f \in ListedCsv :
            (f.body = "nocols" /\ Trimmed(f.name) \in downloaded)
            => Trimmed(f.name) \notin Sources

\* name n carries machine token m and, later, the valid date d
Mentions(n, m, d) ==
    \E i, j \in 1..Len(n.toks) :
        i < j /\ n.toks[i] = <<"m", m>> /\ n.toks[j] = <<"d", d>>

\* the first machine token of n is m and the first date-shaped substring
\* after it is d
ParsesAs(n, m, d) ==
    \E i, j \in 1..Len(n.toks) :
        /\ i < j
        /\ n.toks[i] = <<"m", m>>
        /\ \A k \in 1..(i - 1) : n.toks[k][1] # "m"
        /\ n.toks[j] = <<"d", d>>
        /\ \A k \in (i + 1)..(j - 1) : n.toks[k][1] # "d"

\* two CSV files of one machine, dated 1 and 2: only the one dated 2 is selected
Scenario ==
    \A m \in 1..MaxMachine :
        (/\ Len(listed) = 2
         /\ ListedCsv = ListedFiles
         /\ listed[1].name.toks = << <<"m", m>>, <<"d", 1>> >>
         /\ listed[2].name.toks = << <<"m", m>>, <<"d", 2>> >>)
        => latest_files = [k \in {m} |-> listed[2]]

\* C7 as stated, on the files handed to latest_per_machine: one file for each
\* machine token that occurs in some name with a later valid date, dated no
\* earlier than any other file of that machine.
C7_Original ==
    result = "returned" =>
        /\ DOMAIN latest_files =
               {m \in 1..MaxMachine :
                   \E f \in ListedCsv, d \in 1..MaxDate : Mentions(f.name, m, d)}
        /\ \A m \in DOMAIN latest_files :
               /\ latest_files[m] \in ListedCsv
               /\ \E d \in 1..MaxDate :
                     /\ Mentions(latest_files[m].name, m, d)
                     /\ \A g \in ListedCsv, e \in 1..MaxDate :
                            Mentions(g.name, m, e) => d >= e
        /\ Scenario

\* C7 amended: one file for each machine that is the first machine token of a
\* listed CSV name whose first following date-shaped substring is a valid
\* date; the file is dated no earlier than any other file parsed to that
\* machine.
C7_LatestPerMachine ==
    result = "returned" =>
        /\ DOMAIN latest_files =
               {m \in 1..MaxMachine :
                   \E f \in ListedCsv, d \in 1..MaxDate : ParsesAs(f.name, m, d)}
        /\ \A m \in DOMAIN latest_files :
               /\ latest_files[m] \in ListedCsv
               /\ \E d \in 1..MaxDate :
                     /\ ParsesAs(latest_files[m].name, m, d)
                     /\ \A g \in ListedCsv, e \in 1..MaxDate :
                            ParsesAs(g.name, m, e) => d >= e
        /\ Scenario

\* C7 witness: the later CSV file of a machine is listed first and an earlier
\* one after it; the first is selected.
C7_Witness ==
    /\ result = "returned"
    /\ Len(listed) = 2
    /\ ListedCsv = ListedFiles
    /\ \E m \in 1..MaxMachine :
          /\ ParsesAs(listed[1].name, m, 2)
          /\ ParsesAs(listed[2].name, m, 1)
          /\ m \in DOMAIN latest_files
          /\ latest_files[m] = listed[1]

\* C8: an execution without a token issues no listing request, downloads
\* nothing and writes neither file.
C8_NoTokenHalts ==
    [][~token' => (requests' = 0 /\ downloaded' = {} /\ UNCHANGED cache)]_vars

\* C9: when a listing request is refused, on whatever page, get_all_files
\* returns the empty list.
C9_FailedListingEmpty ==
    list_failed => listed = <<>>

\* C10: after a completed execution the FileIndex maps exactly the trimmed
\* names of the listed CSV files to their current fingerprints.
C10_IndexIsSnapshot ==
    result = "returned" =>
        /\ DOMAIN index = {Trimmed(f.name) : f \in ListedCsv}
        /\ \A f \in ListedCsv : index[Trimmed(f.name)] = Fingerprint(f)

\* C10 witness: a completed execution indexed a skipped file and a file
\* whose listed name carries whitespace.
C10_Witness ==
    /\ result = "returned"
    /\ \E f \in ListedCsv : Trimmed(f.name) \notin downloaded /\ Trimmed(f.name) \in DOMAIN index
    /\ \E g \in ListedCsv : g.name.pad /\ g.name \notin DOMAIN index
                            /\ Trimmed(g.name) \in DOMAIN index

====
